---- MODULE Spec2Model ----
(***************************************************************************)
(* run_YACHT.py as a state machine: one run of the script from the command *)
(* line to the written result table.  Each action is one block of the     *)
(* script; `pc` is the position of the run.  Real-valued parameters and    *)
(* probabilities are numerators over the common denominator Den.          *)
(*                                                                         *)
(* hr.hypothesis_recovery and the utils loaders are imported by the script *)
(* but are not part of the available source; they are modelled from the   *)
(* specification (sections 4.3 and 6) and marked as such below.           *)
(***************************************************************************)
EXTENDS Integers, Sequences, FiniteSets, TLC

\* ------------------------------------------------------------- bounds
\* Denominator of the grid of rationals: ani_thresh, significance,
\* min_coverage and p0 are n/Den.
Den == 4
\* Hashes of the k-mer space are 1..MaxHash.
MaxHash == 2
\* Largest multiplicity of a hash in a sketch.
MaxMult == 2
\* Largest number of organisms (columns of the reference matrix).
MaxOrgs == 2

\* ------------------------------------------------------------ helpers
Hashes == 1..MaxHash

Min(S) == CHOOSE x \in S : \A y \in S : x <= y

RECURSIVE SortedSeq(_)
\* np.intersect1d returns its result sorted ascending.
SortedSeq(S) == IF S = {} THEN <<>> ELSE <<Min(S)>> \o SortedSeq(S \ {Min(S)})

RECURSIVE SumOver(_, _)
SumOver(f, S) == IF S = {} THEN 0 ELSE LET x == CHOOSE y \in S : TRUE
                                       IN f[x] + SumOver(f, S \ {x})

RECURSIVE Pow(_, _)
Pow(a, k) == IF k = 0 THEN 1 ELSE a * Pow(a, k - 1)

RECURSIVE Binom(_, _)
Binom(n, k) == IF k = 0 \/ k = n THEN 1 ELSE Binom(n - 1, k - 1) + Binom(n - 1, k)

Range(s) == {s[i] : i \in DOMAIN s}

\* ------------------------------------------------- data frames (pandas)
\* A frame is [columns : sequence of names, rows : sequence of records with
\* one field per column].  Row i of the model is the row with index label
\* i-1 of the default RangeIndex that pd.read_csv gives.
EmptyFrame == [columns |-> <<>>, rows |-> <<>>]

\* A mutation of SetColumn: a new column is put first instead of last.
SetColumnFirst(df, name, vals) ==
  [columns |-> IF name \in Range(df.columns) THEN df.columns
               ELSE <<name>> \o df.columns,
   rows    |-> [i \in DOMAIN df.rows |->
                 [c \in (DOMAIN df.rows[i]) \cup {name} |->
                    IF c = name THEN vals[i] ELSE df.rows[i][c]]]]

\* df[name] = vals: an existing column is overwritten where it stands, a new
\* one is appended after the last column; vals[i] goes to row i.
SetColumn(df, name, vals) ==
  [columns |-> IF name \in Range(df.columns) THEN df.columns
               ELSE Append(df.columns, name),
   rows    |-> [i \in DOMAIN df.rows |->
                 [c \in (DOMAIN df.rows[i]) \cup {name} |->
                    IF c = name THEN vals[i] ELSE df.rows[i][c]]]]

\* df[name] = scalar: the scalar is broadcast to every row.
SetScalar(df, name, v) == SetColumn(df, name, [i \in DOMAIN df.rows |-> v])

Column(df, name) == [i \in DOMAIN df.rows |-> df.rows[i][name]]

\* --------------------------------- per-organism hypothesis tester (4.3)
\* The names of the RecoveryResult fields, in the order the tester returns
\* them as columns.
RecoveryColumns ==
  <<"observed_count", "decision_threshold", "presence", "coverage_estimate", "degenerate">>

\* n_g: the number of k-mers in the organism's sketch (its column's support).
SketchSize(col) == Cardinality(col)

\* o_g: the k-mers of the organism's support seen in the sample (section 8's
\* example: support of 5, sample vector [3,2,0,0,0], observed_count = 2).
ObservedCount(col, y) == Cardinality({i \in col : y[i] > 0})

RECURSIVE TailFrom(_, _, _)
\* Den^n * P(k <= X <= n) for X ~ Binomial(n, a/Den).
TailFrom(n, k, a) ==
  IF k > n THEN 0
  ELSE Binom(n, k) * Pow(a, k) * Pow(Den - a, n - k) + TailFrom(n, k + 1, a)

\* Den^n * P(X >= t).
TailNum(n, t, a) == IF t <= 0 THEN Pow(Den, n) ELSE TailFrom(n, t, a)

\* P(X >= t) <= 1 - significance, for significance s/Den.
TailNotExceeds(n, t, a, s) == TailNum(n, t, a) * Den <= (Den - s) * Pow(Den, n)

\* Coverage adjustment: the k-mers available to match are n_g * min_coverage
\* (whole k-mers: rounded down).
EffectiveSize(n_g, mc) == (n_g * mc) \div Den

\* t_g: the smallest integer t with P(X >= t) <= 1 - significance under
\* Binomial(n, p0).  It exists in 0..n+1 whenever significance <= 1, since
\* P(X >= n+1) = 0.
DecisionThreshold(n_g, a, s, mc) ==
  LET n == EffectiveSize(n_g, mc)
  IN  CHOOSE t \in 0..(n + 1) :
        /\ TailNotExceeds(n, t, a, s)
        /\ \A u \in 0..(t - 1) : ~TailNotExceeds(n, u, a, s)

\* One organism's test: stateless given (n_g, o_g, p0, min_coverage,
\* significance).  coverage_estimate is the fraction <<o_g, n_g>>.
SingleTest(col, y, a, s, mc) ==
  LET n_g == SketchSize(col)
      o_g == ObservedCount(col, y)
      t_g == DecisionThreshold(n_g, a, s, mc)
  IN  IF n_g = 0
      THEN [observed_count |-> 0, decision_threshold |-> 0, presence |-> FALSE,
            coverage_estimate |-> <<0, 1>>, degenerate |-> TRUE]
      ELSE [observed_count |-> o_g, decision_threshold |-> t_g, presence |-> o_g >= t_g,
            coverage_estimate |-> <<o_g, n_g>>, degenerate |-> FALSE]

\* hr.hypothesis_recovery(A, y, ksize, significance, ani_thresh, min_coverage):
\* one RecoveryResult row per column of A, in column order, and the
\* nontrivial-overlap flags (o_g > 0).  `a` is the background probability p0
\* the tester estimates; ksize and ani_thresh give p = ani_thresh^ksize, which
\* the decision of section 4.3 does not read.
hypothesis_recovery(A, y, k, s, ani, mc, a) ==
  [df    |-> [columns |-> RecoveryColumns,
              rows    |-> [g \in DOMAIN A |-> SingleTest(A[g], y, a, s, mc)]],
   flags |-> [g \in DOMAIN A |-> ObservedCount(A[g], y) > 0]]

\* ------------------------------------------------------- program state
VARIABLES
  pc,               \* the block of the script the run is at
  argv,             \* the command line: the raw value of each flag
  files,            \* the input files that exist on storage
  disk,             \* what the input files hold
  ksize, ani_thresh, significance, min_coverage,   \* the parsed arguments
  reference_matrix, \* column g (1..M): the row indexes of organism g's support
  hash_to_idx,      \* hash -> row index
  organism_data,    \* the frame read from processed_org_idx.csv
  sample_sig,       \* the sample's sketch: ksize, scaled, hashes (hash -> multiplicity)
  sample_vector,    \* row index (0..K-1) -> multiplicity
  recov_org_data,   \* the output frame
  hyp_recovery_df, nontriv_flags,   \* what hypothesis_recovery returned
  p0,               \* the background probability the tester used
  error,            \* the exception that ended the run
  outfile,          \* the frame written to the output path
  stages            \* the blocks that have completed, for the ordering claims

vars == <<pc, argv, files, disk, ksize, ani_thresh, significance, min_coverage,
          reference_matrix, hash_to_idx, organism_data, sample_sig, sample_vector,
          recov_org_data, hyp_recovery_df, nontriv_flags, p0, error, outfile, stages>>

argsVars == <<ksize, ani_thresh, significance, min_coverage>>
trainingVars == <<reference_matrix, hash_to_idx, organism_data>>
testerVars == <<hyp_recovery_df, nontriv_flags, p0>>
inputVars == <<argv, files, disk>>

NoError == [kind |-> "none", entity |-> "", others |-> 0]
NoSketch == [ksize |-> 0, scaled |-> 0, hashes |-> <<>>]

AllFiles == {"ref_matrix", "hash_to_idx_file", "processed_org_file", "sample_file"}

\* ------------------------------------------------------------- inputs
\* --ksize values given on the command line, and what int() makes of them.
KsizeTokens == {"abc", "0", "21", "31"}
IsIntToken(tok) == tok \in {"0", "21", "31"}
IntOf(tok) == CASE tok = "0" -> 0 [] tok = "21" -> 21 [] tok = "31" -> 31

Scales == {1000, 2000}
OrgNames == <<"orgA", "orgB", "orgC", "orgD">>

\* The defaults of the optional flags, on the grid: ani_thresh and
\* significance just below 1, min_coverage 1.
DefaultArgv ==
  [ksize |-> "21", ani_thresh |-> Den - 1, significance |-> Den - 1, min_coverage |-> Den]

OrgFrame(scales) ==
  [columns |-> <<"organism_name", "genome_scale_factor">>,
   rows    |-> [i \in DOMAIN scales |->
                 [organism_name |-> OrgNames[i], genome_scale_factor |-> scales[i]]]]

Sketch(h) == [ksize |-> 21, scaled |-> 1000, hashes |-> h]

\* The hash indexes ref_matrix.py can write: a bijection from the K keys onto 0..K-1.
HashIndexes ==
  UNION { {f \in [keys -> 0..(Cardinality(keys) - 1)] :
             \A x, y \in keys : x # y => f[x] # f[y]} :
          keys \in (SUBSET Hashes) \ {{}} }

\* The sketches: any set of hashes, each with a multiplicity >= 1.
Sketches == UNION { [hs -> 1..MaxMult] : hs \in SUBSET Hashes }

\* Every command line with every state of the storage, over one small
\* reference build.  significance stays at or below 1, where the threshold of
\* section 4.3 is defined.
ParamInputs ==
  { [argv |-> a, files |-> f,
     disk |-> [matrix |-> <<{0, 1}, {1}>>, hash_to_idx |-> [h \in 1..2 |-> h - 1],
               organisms |-> OrgFrame(<<1000, 1000>>), sketch |-> Sketch([h \in {1} |-> 3])]] :
    a \in [ksize : KsizeTokens, ani_thresh : {0, Den - 1, Den},
           significance : (-1)..Den, min_coverage : (-1)..(Den + 1)],
    f \in SUBSET AllFiles }

\* Every hash index with every sketch, one organism with full support.
VectorInputs ==
  { [argv |-> DefaultArgv, files |-> AllFiles,
     disk |-> [matrix |-> <<0..(Cardinality(DOMAIN hi) - 1)>>, hash_to_idx |-> hi,
               organisms |-> OrgFrame(<<1000>>), sketch |-> Sketch(sk)]] :
    hi \in HashIndexes, sk \in Sketches }

\* Every reference build of up to MaxOrgs organisms over two k-mers.
OrganismInputs ==
  UNION { { [argv |-> DefaultArgv, files |-> AllFiles,
             disk |-> [matrix |-> A, hash_to_idx |-> [h \in 1..2 |-> h - 1],
                       organisms |-> OrgFrame(sc), sketch |-> Sketch(sk)]] :
            A \in [1..M -> SUBSET (0..1)], sc \in [1..M -> Scales],
            sk \in {<<>>, [h \in {1} |-> 1], [h \in 1..2 |-> 3 - h]} } :
          M \in 1..MaxOrgs }

\* Metadata files with other columns, two of them under names the script
\* adds itself.
ColumnPool ==
  {"organism_name", "genome_scale_factor", "taxon", "sample_scale_factor", "nontrivial_overlap"}
RequiredColumns == {"organism_name", "genome_scale_factor"}

RECURSIVE Orderings(_)
Orderings(S) ==
  IF S = {} THEN {<<>>}
  ELSE UNION { {<<x>> \o t : t \in Orderings(S \ {x})} : x \in S }

MetadataFrame(cols) ==
  [columns |-> cols,
   rows    |-> [i \in 1..2 |->
                 [c \in Range(cols) |->
                    IF c = "organism_name" THEN OrgNames[i]
                    ELSE IF c = "genome_scale_factor" THEN 1000 ELSE 0]]]

ColumnInputs ==
  { [argv |-> DefaultArgv, files |-> AllFiles,
     disk |-> [matrix |-> <<{0, 1}, {1}>>, hash_to_idx |-> [h \in 1..2 |-> h - 1],
               organisms |-> MetadataFrame(cols), sketch |-> Sketch([h \in {1} |-> 3])]] :
    cols \in UNION { Orderings(RequiredColumns \cup extra) :
                     extra \in SUBSET (ColumnPool \ RequiredColumns) } }

\* One organism with every support over MaxHash + 1 k-mers, under every
\* significance and min_coverage.
TesterInputs ==
  { [argv |-> [DefaultArgv EXCEPT !.significance = s, !.min_coverage = mc],
     files |-> AllFiles,
     disk |-> [matrix |-> <<col>>, hash_to_idx |-> [h \in 1..(MaxHash + 1) |-> h - 1],
               organisms |-> OrgFrame(<<1000>>), sketch |-> Sketch(sk)]] :
    s \in (-1)..Den, mc \in 0..Den, col \in SUBSET (0..MaxHash),
    sk \in {<<>>, [h \in {1} |-> 1], [h \in 1..(MaxHash + 1) |-> 1]} }

Inputs == ParamInputs \cup VectorInputs \cup OrganismInputs \cup ColumnInputs \cup TesterInputs

Init ==
  /\ \E inp \in Inputs : argv = inp.argv /\ files = inp.files /\ disk = inp.disk
  /\ pc = "parse"
  /\ ksize = 0 /\ ani_thresh = 0 /\ significance = 0 /\ min_coverage = 0
  /\ reference_matrix = <<>> /\ hash_to_idx = <<>> /\ organism_data = EmptyFrame
  /\ sample_sig = NoSketch /\ sample_vector = <<>>
  /\ recov_org_data = EmptyFrame /\ hyp_recovery_df = EmptyFrame /\ nontriv_flags = <<>>
  /\ p0 = 0 /\ error = NoError /\ outfile = EmptyFrame /\ stages = {}

\* ------------------------------------------------------------ the run
Raise(kind, entity, others) ==
  /\ pc' = "failed"
  /\ error' = [kind |-> kind, entity |-> entity, others |-> others]

Goto(next, stage) == pc' = next /\ stages' = stages \cup {stage} /\ error' = error

\* parser.parse_args(): --ksize has type=int, so a value int() refuses ends
\* the run with a usage error naming the flag.
ParseArgs ==
  /\ pc = "parse"
  /\ IF ~IsIntToken(argv.ksize)
     THEN /\ Raise("usage", "ksize", 0)
          /\ UNCHANGED <<argsVars, stages>>
     ELSE /\ ksize' = IntOf(argv.ksize)
          /\ ani_thresh' = argv.ani_thresh
          /\ significance' = argv.significance
          /\ min_coverage' = argv.min_coverage
          /\ Goto("validate", "parsed")
  /\ UNCHANGED <<inputVars, trainingVars, sample_sig, sample_vector, recov_org_data,
                 testerVars, outfile>>

\* The two parameter checks.
ValidateParams ==
  /\ pc = "validate"
  /\ IF ~(ksize \in Int)
     THEN Raise("config", "ksize", 0) /\ UNCHANGED stages
     ELSE IF min_coverage < 0 \/ min_coverage > Den
     THEN Raise("config", "min_coverage", 0) /\ UNCHANGED stages
     ELSE Goto("check_files", "validated")
  /\ UNCHANGED <<inputVars, argsVars, trainingVars, sample_sig, sample_vector,
                 recov_org_data, testerVars, outfile>>

\* "make sure all these files exist": the reference matrix and the two files
\* whose paths are derived from its path.
CheckFiles ==
  /\ pc = "check_files"
  /\ IF "ref_matrix" \notin files
     THEN Raise("missing_input", "ref_matrix", 0) /\ UNCHANGED stages
     ELSE IF "hash_to_idx_file" \notin files
     THEN Raise("missing_input", "hash_to_idx_file", 0) /\ UNCHANGED stages
     ELSE IF "processed_org_file" \notin files
     THEN Raise("missing_input", "processed_org_file", 0) /\ UNCHANGED stages
     ELSE Goto("load_training", "files_checked")
  /\ UNCHANGED <<inputVars, argsVars, trainingVars, sample_sig, sample_vector,
                 recov_org_data, testerVars, outfile>>

\* load_npz, utils.load_hashes, pd.read_csv.
LoadTraining ==
  /\ pc = "load_training"
  /\ reference_matrix' = disk.matrix
  /\ hash_to_idx' = disk.hash_to_idx
  /\ organism_data' = disk.organisms
  /\ Goto("load_sample", "training_loaded")
  /\ UNCHANGED <<inputVars, argsVars, sample_sig, sample_vector, recov_org_data,
                 testerVars, outfile>>

\* utils.load_signature_with_ksize (SampleSketchLoader of section 6): fails
\* when the sample cannot be read or holds no sketch of the requested k-mer
\* size.
load_signature_with_ksize(fs, d, k) ==
  IF "sample_file" \notin fs THEN [ok |-> FALSE, sig |-> NoSketch]
  ELSE IF d.sketch.ksize # k THEN [ok |-> FALSE, sig |-> NoSketch]
  ELSE [ok |-> TRUE, sig |-> d.sketch]

LoadSample ==
  /\ pc = "load_sample"
  /\ LET r == load_signature_with_ksize(files, disk, ksize)
     IN  IF r.ok
         THEN sample_sig' = r.sig /\ Goto("build_vector", "sample_loaded")
         ELSE Raise("sample_load", "sample_file", 0) /\ UNCHANGED <<sample_sig, stages>>
  /\ UNCHANGED <<inputVars, argsVars, trainingVars, sample_vector, recov_org_data,
                 testerVars, outfile>>

RECURSIVE FillVector(_, _, _, _)
\* The loop over the shared hashes: sample_vector[hash_to_idx[sh]] = sample_hashes[sh].
FillVector(vec, shs, idx, sample_hashes) ==
  IF shs = <<>> THEN vec
  ELSE FillVector([vec EXCEPT ![idx[Head(shs)]] = sample_hashes[Head(shs)]],
                  Tail(shs), idx, sample_hashes)

\* A mutation of BuildVector: the multiplicity is stored at the position of the
\* hash in the sorted intersection, not at its row index.
BuildVectorByPosition(idx, sample_hashes) ==
  LET K   == Cardinality(DOMAIN idx)
      shs == SortedSeq((DOMAIN sample_hashes) \cap (DOMAIN idx))
  IN  [i \in 0..(K - 1) |-> IF i + 1 \in DOMAIN shs THEN sample_hashes[shs[i + 1]] ELSE 0]

\* K = len(keys); np.zeros(K); np.intersect1d of the sample's hashes and the
\* keys; the loop.
BuildVector(idx, sample_hashes) ==
  LET K == Cardinality(DOMAIN idx)
  IN  FillVector([i \in 0..(K - 1) |-> 0],
                 SortedSeq((DOMAIN sample_hashes) \cap (DOMAIN idx)),
                 idx, sample_hashes)

BuildSampleVector ==
  /\ pc = "build_vector"
  /\ sample_vector' = BuildVector(hash_to_idx, sample_sig.hashes)
  /\ Goto("prep_output", "vector_built")
  /\ UNCHANGED <<inputVars, argsVars, trainingVars, sample_sig, recov_org_data,
                 testerVars, outfile>>

\* utils.get_num_kmers(sample_sig, scale=False): the k-mers of the sketch,
\* counted with multiplicity.
get_num_kmers(sig) == SumOver(sig.hashes, DOMAIN sig.hashes)

\* The copy of the organism data with the three sample-level columns.
PrepFrame(org, sig) ==
  SetScalar(
    SetScalar(
      SetScalar(org, "num_total_kmers_in_sample_sketch", get_num_kmers(sig)),
      "num_exclusive_kmers_in_sample_sketch", Cardinality(DOMAIN sig.hashes)),
    "sample_scale_factor", sig.scaled)

PrepOutput ==
  /\ pc = "prep_output"
  /\ recov_org_data' = PrepFrame(organism_data, sample_sig)
  /\ Goto("scale_check", "output_prepared")
  /\ UNCHANGED <<inputVars, argsVars, trainingVars, sample_sig, sample_vector,
                 testerVars, outfile>>

Abs(x) == IF x < 0 THEN -x ELSE x

\* sample_diffs: the names of the organisms whose genome scale factor differs
\* from the sample's, in row order (np.nonzero of the absolute difference).
sample_diffs(df) ==
  LET bad == SelectSeq(df.rows,
                       LAMBDA r : Abs(r.sample_scale_factor - r.genome_scale_factor) # 0)
  IN  [i \in DOMAIN bad |-> bad[i].organism_name]

\* A mutation of ScaleMismatchError: the first organism of the table is named,
\* not the first that differs.
ScaleMismatchErrorFirstRow(df) ==
  [kind |-> "scale_mismatch", entity |-> df.rows[1].organism_name,
   others |-> Len(sample_diffs(df)) - 1]

\* 'Sample scale factor does not equal genome scale factor for organism %s
\* and %d others.' % (sample_diffs[0], len(sample_diffs) - 1)
ScaleMismatchError(df) ==
  [kind |-> "scale_mismatch", entity |-> sample_diffs(df)[1],
   others |-> Len(sample_diffs(df)) - 1]

\* A mutation of ScaleCheck: the differences are computed and nothing is raised.
ScaleCheckNoGate ==
  /\ pc = "scale_check"
  /\ Goto("call_tester", "scale_checked")
  /\ UNCHANGED <<inputVars, argsVars, trainingVars, sample_sig, sample_vector,
                 recov_org_data, testerVars, outfile>>

ScaleCheck ==
  /\ pc = "scale_check"
  /\ IF Len(sample_diffs(recov_org_data)) > 0
     THEN /\ pc' = "failed"
          /\ error' = ScaleMismatchError(recov_org_data)
          /\ UNCHANGED stages
     ELSE Goto("call_tester", "scale_checked")
  /\ UNCHANGED <<inputVars, argsVars, trainingVars, sample_sig, sample_vector,
                 recov_org_data, testerVars, outfile>>

\* A mutation of CallTester: significance and ani_thresh change places in the call.
CallTesterSwapped ==
  /\ pc = "call_tester"
  /\ \E a \in 0..Den :
       LET r == hypothesis_recovery(reference_matrix, sample_vector, ksize,
                                    ani_thresh, significance, min_coverage, a)
       IN  /\ hyp_recovery_df' = r.df
           /\ nontriv_flags' = r.flags
           /\ p0' = a
  /\ recov_org_data' = SetScalar(recov_org_data, "min_coverage", min_coverage)
  /\ Goto("merge", "tester_called")
  /\ UNCHANGED <<inputVars, argsVars, trainingVars, sample_sig, sample_vector, outfile>>

\* The min_coverage column, then the call of the tester.  The tester's
\* estimate of p0 is any probability of the grid.
CallTester ==
  /\ pc = "call_tester"
  /\ \E a \in 0..Den :
       LET r == hypothesis_recovery(reference_matrix, sample_vector, ksize,
                                    significance, ani_thresh, min_coverage, a)
       IN  /\ hyp_recovery_df' = r.df
           /\ nontriv_flags' = r.flags
           /\ p0' = a
  /\ recov_org_data' = SetScalar(recov_org_data, "min_coverage", min_coverage)
  /\ Goto("merge", "tester_called")
  /\ UNCHANGED <<inputVars, argsVars, trainingVars, sample_sig, sample_vector, outfile>>

RECURSIVE AddColumns(_, _, _)
\* for col in hyp_recovery_df_cols: recov_org_data[col] = hyp_recovery_df[col]
AddColumns(out, cols, df) ==
  IF cols = <<>> THEN out
  ELSE AddColumns(SetColumn(out, Head(cols), Column(df, Head(cols))), Tail(cols), df)

Reversed(s) == [i \in DOMAIN s |-> s[Len(s) + 1 - i]]

\* A mutation of MergeFrames: the tester's rows are joined in reverse order.
MergeFramesReversed(out, flags, df) ==
  AddColumns(SetColumn(out, "nontrivial_overlap", Reversed(flags)),
             df.columns, [df EXCEPT !.rows = Reversed(df.rows)])

\* A mutation of MergeFrames: the rows without overlap are removed (the TODO
\* of the script).
MergeFramesDropTrivial(out, flags, df) ==
  LET m == AddColumns(SetColumn(out, "nontrivial_overlap", flags), df.columns, df)
  IN  [m EXCEPT !.rows = SelectSeq(m.rows, LAMBDA r : r.nontrivial_overlap)]

\* The nontrivial_overlap column, then every column of hyp_recovery_df.
MergeFrames(out, flags, df) ==
  AddColumns(SetColumn(out, "nontrivial_overlap", flags), df.columns, df)

MergeRecovery ==
  /\ pc = "merge"
  /\ recov_org_data' = MergeFrames(recov_org_data, nontriv_flags, hyp_recovery_df)
  /\ Goto("write", "merged")
  /\ UNCHANGED <<inputVars, argsVars, trainingVars, sample_sig, sample_vector,
                 testerVars, outfile>>

\* df.to_csv(path) with its defaults: the index is written as a first,
\* unnamed column, then the frame's columns in their order.
to_csv(df) ==
  [columns |-> <<"">> \o df.columns,
   rows    |-> [i \in DOMAIN df.rows |->
                 [c \in (DOMAIN df.rows[i]) \cup {""} |->
                    IF c = "" THEN i - 1 ELSE df.rows[i][c]]]]

\* recov_org_data.to_csv(outfile)
WriteOutput ==
  /\ pc = "write"
  /\ outfile' = to_csv(recov_org_data)
  /\ Goto("done", "written")
  /\ UNCHANGED <<inputVars, argsVars, trainingVars, sample_sig, sample_vector,
                 recov_org_data, testerVars>>

Next ==
  \/ ParseArgs
  \/ ValidateParams
  \/ CheckFiles
  \/ LoadTraining
  \/ LoadSample
  \/ BuildSampleVector
  \/ PrepOutput
  \/ ScaleCheck
  \/ CallTester
  \/ MergeRecovery
  \/ WriteOutput

Spec == Init /\ [][Next]_vars

\* ------------------------------------------------------------- claims
SampleColumns ==
  <<"num_total_kmers_in_sample_sketch", "num_exclusive_kmers_in_sample_sketch",
    "sample_scale_factor">>
TesterColumns == <<"min_coverage", "nontrivial_overlap">> \o RecoveryColumns

\* The organisms (rows of the metadata) whose scale factor differs from the sample's.
Mismatching ==
  {i \in DOMAIN organism_data.rows :
     organism_data.rows[i].genome_scale_factor # sample_sig.scaled}

\* The optional flags of the command line are within their documented ranges
\* and ksize, when an integer, is positive.
DocumentedRanges ==
  /\ argv.ani_thresh > 0 /\ argv.ani_thresh <= Den
  /\ argv.significance > 0 /\ argv.significance <= Den
  /\ IsIntToken(argv.ksize) => IntOf(argv.ksize) > 0

\* C1: once the sample vector is built it has one entry per key of the hash
\* index, and the entry at the row index of a hash is the hash's multiplicity
\* in the sketch, or 0 when the sketch does not hold the hash; with no shared
\* hash the vector is all-zero and the run has not failed.
C1_SampleVector ==
  "vector_built" \in stages =>
    LET K == Cardinality(DOMAIN hash_to_idx)
        h == sample_sig.hashes
    IN  /\ DOMAIN sample_vector = 0..(K - 1)
        /\ \A x \in DOMAIN hash_to_idx :
             sample_vector[hash_to_idx[x]] = IF x \in DOMAIN h THEN h[x] ELSE 0
        /\ (DOMAIN h) \cap (DOMAIN hash_to_idx) = {} =>
             /\ \A i \in 0..(K - 1) : sample_vector[i] = 0
             /\ (pc = "prep_output" => error = NoError)

\* C1's case: an index that does not keep the order of the hashes, a sketch
\* holding one of its two keys with a multiplicity above 1.
C1_Witness ==
  /\ "vector_built" \in stages
  /\ DOMAIN hash_to_idx = {1, 2} /\ hash_to_idx[1] = 1
  /\ DOMAIN sample_sig.hashes = {1} /\ sample_sig.hashes[1] = 2
  /\ sample_vector[1] = 2 /\ sample_vector[0] = 0

\* C2 as stated: a scale-mismatch error names a mismatching organism and the
\* count it reports is the number m of mismatching organisms; with no
\* mismatch the error is not raised.
C2_ReportsTotal ==
  /\ (DocumentedRanges /\ error.kind = "scale_mismatch") =>
       /\ \E i \in Mismatching : organism_data.rows[i].organism_name = error.entity
       /\ error.others = Cardinality(Mismatching)
  /\ ("output_prepared" \in stages /\ pc # "scale_check" /\ Mismatching = {}) =>
       error.kind # "scale_mismatch"

\* C2 amended: after the scale check, if m >= 1 organisms mismatch the run has
\* failed with a scale-mismatch error that names the first mismatching
\* organism of the table and reports m - 1 others; if none mismatches no such
\* error is raised and the run goes on.
C2_ReportsOthers ==
  ("output_prepared" \in stages /\ pc # "scale_check") =>
    IF Mismatching # {}
    THEN /\ pc = "failed"
         /\ error.kind = "scale_mismatch"
         /\ error.entity = organism_data.rows[Min(Mismatching)].organism_name
         /\ error.others = Cardinality(Mismatching) - 1
    ELSE /\ error.kind # "scale_mismatch"
         /\ "scale_checked" \in stages

\* C2's case: the check has failed a run in which two organisms mismatch.
C2_Witness ==
  /\ pc = "failed" /\ error.kind = "scale_mismatch"
  /\ Cardinality(Mismatching) = 2 /\ error.others = 1

\* C3: the tester has been invoked only if the scale check passed and no
\* organism mismatches; when an organism of the input mismatches, the tester
\* is never invoked and nothing is ever written.
C3_ScaleGate ==
  /\ "tester_called" \in stages => ("scale_checked" \in stages /\ Mismatching = {})
  /\ (\E i \in DOMAIN disk.organisms.rows :
        disk.organisms.rows[i].genome_scale_factor # disk.sketch.scaled) =>
       /\ "tester_called" \notin stages
       /\ "written" \notin stages
       /\ outfile = EmptyFrame
       /\ hyp_recovery_df = EmptyFrame

\* C3's case: the scale check has run, found a mismatch and aborted the run
\* before the tester.
C3_Witness ==
  /\ pc = "failed" /\ error.kind = "scale_mismatch"
  /\ "output_prepared" \in stages /\ "tester_called" \notin stages
  /\ Cardinality(Mismatching) = 1

\* C4 as stated: with a non-integer ksize, a min_coverage outside [0,1] or any
\* of the four input files absent, no input is ever loaded, the sample vector
\* is never built and the tester is never invoked; the run ends in an error
\* that names a parameter or a file.
C4_FailFast ==
  (/\ DocumentedRanges
   /\ \/ ~IsIntToken(argv.ksize)
      \/ argv.min_coverage < 0 \/ argv.min_coverage > Den
      \/ files # AllFiles) =>
    /\ stages \cap {"training_loaded", "sample_loaded", "vector_built", "tester_called"} = {}
    /\ pc # "done"
    /\ pc = "failed" => error.entity \in
         {"ksize", "min_coverage", "ref_matrix", "hash_to_idx_file",
          "processed_org_file", "sample_file"}

\* C5 as stated: whenever the tester has been invoked, min_coverage is in
\* [0,1], ani_thresh and significance are in (0,1] and ksize is a positive
\* integer.
C5_ParameterRanges ==
  "tester_called" \in stages =>
    /\ min_coverage >= 0 /\ min_coverage <= Den
    /\ ani_thresh > 0 /\ ani_thresh <= Den
    /\ significance > 0 /\ significance <= Den
    /\ ksize > 0

KeptColumns == Range(organism_data.columns) \ (Range(SampleColumns) \cup Range(TesterColumns))

ColumnRank(c) ==
  IF c \in Range(SampleColumns) THEN 2
  ELSE IF c \in Range(TesterColumns) THEN 3 ELSE 1

\* C8 as stated: whatever the columns of the metadata, the written table's
\* columns are the metadata columns, then the three sample-level columns, then
\* the recovery columns: no recovery column stands before a sample-level one
\* and no sample-level column before a metadata one.
C8_ColumnOrder ==
  (pc = "done" /\ DocumentedRanges) =>
    \A i, j \in DOMAIN outfile.columns :
      i < j => ColumnRank(outfile.columns[i]) <= ColumnRank(outfile.columns[j])

\* No column of the metadata has the name of a column the script adds.
DistinctColumnNames ==
  Range(organism_data.columns) \cap (Range(SampleColumns) \cup Range(TesterColumns)) = {}

\* C8 amended: when no metadata column has the name of a sample-level column,
\* of min_coverage, of nontrivial_overlap or of a recovery column, the written
\* table's columns are the metadata columns in file order, the three
\* sample-level columns, min_coverage, nontrivial_overlap and the recovery
\* columns in the tester's order, after the unnamed index column.
C8_ColumnOrderDistinct ==
  (pc = "done" /\ DistinctColumnNames) =>
    outfile.columns =
      <<"">> \o organism_data.columns \o SampleColumns
        \o <<"min_coverage", "nontrivial_overlap">> \o hyp_recovery_df.columns

\* C8's case: a written table whose metadata has a third column, unlike any
\* added one, ahead of the two the script reads.
C8_Witness ==
  /\ pc = "done" /\ DistinctColumnNames
  /\ organism_data.columns = <<"taxon", "genome_scale_factor", "organism_name">>
  /\ Len(outfile.columns) = 14

\* C9: with the organism's sketch size, p0 and min_coverage of the run, the
\* threshold is non-decreasing in significance over (0,1]; the threshold the
\* run reports for its significance s is at most the threshold of every
\* s2 >= s and at least that of every s1 <= s.
C9_ThresholdMonotone ==
  "tester_called" \in stages =>
    \A g \in DOMAIN reference_matrix :
      LET n == SketchSize(reference_matrix[g])
          T(s) == DecisionThreshold(n, p0, s, min_coverage)
      IN  /\ \A s1, s2 \in 1..Den : s1 <= s2 => T(s1) <= T(s2)
          /\ (n > 0 /\ significance \in 1..Den) =>
               /\ \A s2 \in significance..Den :
                    hyp_recovery_df.rows[g].decision_threshold <= T(s2)
               /\ \A s1 \in 1..significance :
                    T(s1) <= hyp_recovery_df.rows[g].decision_threshold

\* C9's case: a run whose reported threshold is 1 at significance 1/Den and
\* would be 3 at significance 1.
C9_Witness ==
  /\ "tester_called" \in stages /\ significance = 1
  /\ Len(reference_matrix) = 1 /\ SketchSize(reference_matrix[1]) = 2
  /\ hyp_recovery_df.rows[1].decision_threshold = 1
  /\ DecisionThreshold(2, p0, Den, min_coverage) = 3

RemoveAt(s, d) == [i \in 1..(Len(s) - 1) |-> IF i < d THEN s[i] ELSE s[i + 1]]

\* The recovery values and the flag of row i of a frame.
RecoveryOf(df, i) ==
  [c \in Range(RecoveryColumns) \cup {"nontrivial_overlap"} |-> df.rows[i][c]]

\* What the tester and the merge give for the reference matrix A.
RowsFor(A) ==
  LET r == hypothesis_recovery(A, sample_vector, ksize, significance, ani_thresh,
                               min_coverage, p0)
  IN  [i \in DOMAIN A |->
        [c \in Range(RecoveryColumns) \cup {"nontrivial_overlap"} |->
           IF c = "nontrivial_overlap" THEN r.flags[i] ELSE r.df.rows[i][c]]]

====
